---- MODULE Spec2Model ----
(***************************************************************************)
(* Battery charging controller sketch (20_ChargingTheBatteries.ino).       *)
(*                                                                         *)
(* The sketch is one polling loop over three globals.  Each execution of   *)
(* loop() reads the photoresistor, adds reading * CHARGE_PER_LIGHT_UNIT to *)
(* battery_charge_percentage in single precision, prints one telemetry     *)
(* line, reads the button and toggles the light on a press edge.           *)
(*                                                                         *)
(* A C++ float is modelled as a record [m, e] with value m * 2^e, where m  *)
(* is the 24-bit significand (2^23 <= m < 2^24) or 0 for zero.  All        *)
(* operations round to nearest, ties to even, as IEEE-754 binary32 does.   *)
(* Intermediate integers are kept below 2^31.                              *)
(***************************************************************************)
EXTENDS Integers, Sequences, FiniteSets

VARIABLES pc, serial_ready, pin_mode, battery_charge_percentage, light_on,
          previous_button_state, light_pin, pin_writes, serial_lines,
          cycles, hist

vars == <<pc, serial_ready, pin_mode, battery_charge_percentage, light_on,
          previous_button_state, light_pin, pin_writes, serial_lines,
          cycles, hist>>

(***************************************************************************)
(* Bounds of the model.                                                    *)
(***************************************************************************)
\* executions of loop() explored with arbitrary inputs and a recorded history
MaxCycles == 5
\* executions of loop() explored with the sensor held at AVERAGE_CHARGE_LEVEL
AvgCycles == 603
\* executions of loop() explored with the sensor held at full scale
BrightCycles == 315

(***************************************************************************)
(* Arduino and sketch constants.                                           *)
(***************************************************************************)
LOW == 0
HIGH == 1
PRESSED == LOW
NOT_PRESSED == HIGH
ADC_MAX == 1023

LOW_BATTERY_LIMIT == 10
HIGH_BATTERY_LIMIT == 90
SECONDS_TO_FULL == 30
LOOPS_PER_SECOND == 20
AVERAGE_CHARGE_LEVEL == 530

(***************************************************************************)
(* Single-precision arithmetic.                                            *)
(***************************************************************************)
\* An operator that uses an argument more than once first binds it through
\* a singleton set, so that every float operation is evaluated once, as the
\* processor evaluates it, however deeply the calls are nested.

\* the powers of two 2^0 .. 2^30
PowersOfTwo ==
    <<1, 2, 4, 8, 16, 32, 64, 128,
      256, 512, 1024, 2048, 4096, 8192, 16384, 32768,
      65536, 131072, 262144, 524288, 1048576, 2097152, 4194304, 8388608,
      16777216, 33554432, 67108864, 134217728, 268435456, 536870912, 1073741824>>

Pow2(n) == PowersOfTwo[n + 1]

RECURSIVE BitLen(_)
BitLen(x) == IF x = 0 THEN 0 ELSE 1 + BitLen(x \div 2)

FZero == [m |-> 0, e |-> 0]

\* q + rem/den rounded to the nearest integer, ties to the even one
RoundNearestEven(q, rem, den) ==
    IF 2 * rem > den \/ (2 * rem = den /\ q % 2 = 1) THEN q + 1 ELSE q

\* a rounded significand that reached 2^24 moves to the next binade
Renorm(m, e) ==
    CHOOSE f \in {IF mv = Pow2(24) THEN [m |-> Pow2(23), e |-> e + 1]
                                   ELSE [m |-> mv, e |-> e] : mv \in {m}} : TRUE

RECURSIVE Normalize(_, _)
Normalize(m, e) ==
    IF m >= Pow2(23) THEN [m |-> m, e |-> e] ELSE Normalize(2 * m, e - 1)

\* conversion of a non-negative integer below 2^24 to float (exact)
IntToFloat(n) == IF n = 0 THEN FZero ELSE Normalize(n, 0)

\* floor(m * 2^s / d) and the remainder, without forming m * 2^s
QuotShift(m, d, s) ==
    LET q0 == m \div d
        r0 == m % d
    IN  [q |-> q0 * Pow2(s) + (r0 * Pow2(s)) \div d,
         rem |-> (r0 * Pow2(s)) % d]

RECURSIVE DivShift(_, _, _)
DivShift(m, d, s) ==
    IF QuotShift(m, d, s).q >= Pow2(23) THEN s ELSE DivShift(m, d, s + 1)

\* f / d for a positive float f and an integer-valued divisor 1 <= d < 2^10
FDiv(f, d) ==
    LET s  == DivShift(f.m, d, 0)
        qs == QuotShift(f.m, d, s)
    IN  Renorm(RoundNearestEven(qs.q, qs.rem, d), f.e - s)

\* the exact product hi * 2^12 + lo (in units of 2^e, hi >= 2^11, lo < 2^12)
\* rounded to 24 significant bits
RoundProduct(hi, lo, e) ==
    CHOOSE f \in {Renorm(RoundNearestEven(hi * Pow2(12 - k) + lo \div Pow2(k),
                                          lo % Pow2(k), Pow2(k)), e + k) :
                     k \in {BitLen(hi) - 12}} : TRUE

\* r * fv for an int 1 <= r <= 1023 and a positive float value fv
MulValue(r, fv) ==
    CHOOSE f \in {RoundProduct(hi, lo, fv.e) :
                     hi \in {r * (fv.m \div Pow2(12))
                               + (r * (fv.m % Pow2(12))) \div Pow2(12)},
                     lo \in {(r * (fv.m % Pow2(12))) % Pow2(12)}} : TRUE

\* r * f for an int 0 <= r <= 1023 (converted exactly) and a float f >= 0
FMulInt(r, f) ==
    CHOOSE p \in {IF rv = 0 \/ fv.m = 0 THEN FZero ELSE MulValue(rv, fv) :
                     rv \in {r}, fv \in {f}} : TRUE

FLess(f, g) ==
    IF f.m = 0 THEN g.m > 0
    ELSE IF g.m = 0 THEN FALSE
    ELSE f.e < g.e \/ (f.e = g.e /\ f.m < g.m)

FLeq(f, g) == f = g \/ FLess(f, g)

\* a + b for float values with a >= b > 0 and d = a.e - b.e < 25: the sum
\* s + lo / 2^d (in units of 2^a.e) rounded to 24 significant bits
RoundSum(s, lo, d, e) ==
    IF s < Pow2(24)
    THEN Renorm(RoundNearestEven(s, lo, Pow2(d)), e)
    ELSE Renorm(RoundNearestEven(s \div 2, (s % 2) * Pow2(d) + lo,
                                 Pow2(d + 1)), e + 1)

\* a + b for float values with a >= b > 0
FAddOrdered(a, b) ==
    IF a.e - b.e >= 25 THEN a
    ELSE CHOOSE f \in {RoundSum(s, lo, a.e - b.e, a.e) :
                          s \in {a.m + b.m \div Pow2(a.e - b.e)},
                          lo \in {b.m % Pow2(a.e - b.e)}} : TRUE

\* f + g for non-negative floats
FAdd(f, g) ==
    CHOOSE sum \in {IF gv.m = 0 THEN fv
                    ELSE IF fv.m = 0 THEN gv
                    ELSE IF FLess(fv, gv) THEN FAddOrdered(gv, fv)
                    ELSE FAddOrdered(fv, gv) : fv \in {f}, gv \in {g}} : TRUE

(***************************************************************************)
(* The derived charging constants, each rounded to float as it is defined. *)
(***************************************************************************)
PERCENTAGE_FROM_EMPTY_TO_FULL == IntToFloat(HIGH_BATTERY_LIMIT - LOW_BATTERY_LIMIT)
PERCENTAGE_PER_SECOND == FDiv(PERCENTAGE_FROM_EMPTY_TO_FULL, SECONDS_TO_FULL)
PERCENTAGE_PER_LOOP == FDiv(PERCENTAGE_PER_SECOND, LOOPS_PER_SECOND)
\* variant: the coefficient is derived from the charge per second
CHARGE_PER_LIGHT_UNIT_PerSecond == FDiv(PERCENTAGE_PER_SECOND, AVERAGE_CHARGE_LEVEL)

CHARGE_PER_LIGHT_UNIT == FDiv(PERCENTAGE_PER_LOOP, AVERAGE_CHARGE_LEVEL)

(***************************************************************************)
(* Library calls made by loop().                                           *)
(***************************************************************************)
\* variant: the re-mapping rounds to the nearest integer
map_Rounded(x, in_min, in_max, out_min, out_max) ==
    (2 * (x - in_min) * (out_max - out_min) + (in_max - in_min))
        \div (2 * (in_max - in_min)) + out_min

\* Arduino map(): integer re-mapping, the division truncates
map(x, in_min, in_max, out_min, out_max) ==
    ((x - in_min) * (out_max - out_min)) \div (in_max - in_min) + out_min

\* (unsigned long) f: the integer part of a non-negative float below 2^24
FTrunc(f) ==
    CHOOSE n \in {IF fv.m = 0 THEN 0
                  ELSE IF fv.e >= 0 THEN fv.m * Pow2(fv.e)
                  ELSE IF 0 - fv.e >= 24 THEN 0
                  ELSE fv.m \div Pow2(0 - fv.e) : fv \in {f}} : TRUE

\* the fractional part of a float value with -24 < fv.e < 0
FracValue(fv) ==
    CHOOSE r \in {IF fr = 0 THEN FZero ELSE Normalize(fr, fv.e) :
                     fr \in {fv.m % Pow2(0 - fv.e)}} : TRUE

\* f - (float) FTrunc(f): the fractional part, which float subtraction
\* yields exactly
FFrac(f) ==
    CHOOSE r \in {IF fv.m = 0 \/ fv.e >= 0 THEN FZero
                  ELSE IF 0 - fv.e >= 24 THEN fv
                  ELSE FracValue(fv) : fv \in {f}} : TRUE

\* the rounding term of Print::printFloat for two digits: 0.5 / 10 / 10,
\* each division rounded to float
PrintRounding == FDiv(FDiv([m |-> Pow2(23), e |-> -24], 10), 10)

\* Serial.print(float) is Print::printFloat(number, 2), computed in float
\* (double is the 32-bit float on the AVR of the HERO XL): add the rounding
\* term, print the integer part, then twice multiply the remainder by 10,
\* print its integer part and subtract it.  The text "10.13" is represented
\* by <<10, 1, 3>>.  Defined for 0 <= f < 2^23.

\* the second digit, from the remainder times 10 left by the first digit
PrintSecondDigit(number, r1) ==
    <<FTrunc(number), FTrunc(r1), FTrunc(FMulInt(10, FFrac(r1)))>>

\* the first digit, from the number after the rounding term was added
PrintFirstDigit(number) ==
    CHOOSE text \in {PrintSecondDigit(number, r1) :
                        r1 \in {FMulInt(10, FFrac(number))}} : TRUE

PrintFloat(f) ==
    CHOOSE text \in {PrintFirstDigit(number) :
                        number \in {FAdd(f, PrintRounding)}} : TRUE

\* conversion of a value to C++ bool and back to int (0 or 1)
ToBool(x) == IF x = 0 THEN 0 ELSE 1

(***************************************************************************)
(* The body of loop(), one piece per statement group.                      *)
(***************************************************************************)
\* line 132: float new_charge = current_charging_rate * CHARGE_PER_LIGHT_UNIT
NewCharge(current_charging_rate) ==
    FMulInt(current_charging_rate, CHARGE_PER_LIGHT_UNIT)

\* variant: `=` written for `+=`
Charged_Assign(battery, current_charging_rate) ==
    NewCharge(current_charging_rate)

\* line 135: battery_charge_percentage += new_charge
Charged(battery, current_charging_rate) ==
    FAdd(battery, NewCharge(current_charging_rate))

\* lines 137-143: the four fields of the telemetry line
TelemetryLine(battery, current_charging_rate) ==
    <<0, 100, PrintFloat(battery), map(current_charging_rate, 0, ADC_MAX, 0, 100)>>

\* variant: the test for PRESSED is missing, any edge counts
PressEdge_AnyEdge(button_state, previous) ==
    button_state # previous

\* lines 150-151: a changed button state whose new value is PRESSED
PressEdge(button_state, previous) ==
    button_state # previous /\ button_state = PRESSED

\* lines 153-159: the light state after the button has been examined
NextLight(light, button_state, previous) ==
    IF PressEdge(button_state, previous) THEN ~light ELSE light

\* variant: the two digitalWrite levels are exchanged
LightWrites_Swapped(light, button_state, previous) ==
    IF PressEdge(button_state, previous)
    THEN (IF light THEN <<HIGH>> ELSE <<LOW>>)
    ELSE <<>>

\* lines 154, 157: the digitalWrite calls on LIGHT made in this cycle
LightWrites(light, button_state, previous) ==
    IF PressEdge(button_state, previous)
    THEN (IF light THEN <<LOW>> ELSE <<HIGH>>)
    ELSE <<>>

\* variant: the assignment sits inside the PRESSED branch
NextPrevious_PressOnly(button_state, previous) ==
    IF PressEdge(button_state, previous) THEN ToBool(button_state) ELSE previous

\* line 162: previous_button_state is overwritten when the state changed
NextPrevious(button_state, previous) ==
    IF button_state # previous THEN ToBool(button_state) ELSE previous

\* the level left on the pin by a sequence of writes
LevelAfter(level, writes) ==
    IF writes = <<>> THEN level ELSE writes[Len(writes)]

(***************************************************************************)
(* State machine.                                                          *)
(***************************************************************************)
Init ==
    /\ pc = "setup"
    /\ serial_ready = FALSE
    /\ pin_mode = [LIGHT |-> "UNSET", LIGHT_BUTTON |-> "UNSET", CHARGING_RATE |-> "UNSET"]
    /\ battery_charge_percentage = IntToFloat(LOW_BATTERY_LIMIT)
    /\ light_on = FALSE
    /\ previous_button_state = ToBool(NOT_PRESSED)
    /\ light_pin = LOW
    /\ pin_writes = <<>>
    /\ serial_lines = <<>>
    /\ cycles = 0
    /\ hist = <<>>

\* the host opens the serial port (environment step)
SerialConnect ==
    /\ ~serial_ready
    /\ serial_ready' = TRUE
    /\ UNCHANGED <<pc, pin_mode, battery_charge_percentage, light_on,
                   previous_button_state, light_pin, pin_writes,
                   serial_lines, cycles, hist>>

\* variant: setup() without the wait for the serial port
setup_NoWait ==
    /\ pc = "setup"
    /\ pin_mode' = [LIGHT |-> "OUTPUT", LIGHT_BUTTON |-> "INPUT_PULLUP",
                    CHARGING_RATE |-> "INPUT"]
    /\ pc' = "loop"
    /\ UNCHANGED <<serial_ready, battery_charge_percentage, light_on,
                   previous_button_state, light_pin, pin_writes,
                   serial_lines, cycles, hist>>

\* setup(): leaves `while (!Serial)` only when the port is ready, then
\* configures the three pins and returns
setup ==
    /\ pc = "setup"
    /\ serial_ready
    /\ pin_mode' = [LIGHT |-> "OUTPUT", LIGHT_BUTTON |-> "INPUT_PULLUP",
                    CHARGING_RATE |-> "INPUT"]
    /\ pc' = "loop"
    /\ UNCHANGED <<serial_ready, battery_charge_percentage, light_on,
                   previous_button_state, light_pin, pin_writes,
                   serial_lines, cycles, hist>>

\* variant: the battery is charged only while the light is off
loop_LightGatesCharging(current_charging_rate, button_state) ==
    /\ pc = "loop"
    /\ battery_charge_percentage' =
           (IF light_on THEN battery_charge_percentage
            ELSE Charged(battery_charge_percentage, current_charging_rate))
    /\ serial_lines' =
           <<TelemetryLine(battery_charge_percentage', current_charging_rate)>>
    /\ light_on' = NextLight(light_on, button_state, previous_button_state)
    /\ pin_writes' = LightWrites(light_on, button_state, previous_button_state)
    /\ light_pin' = LevelAfter(light_pin, pin_writes')
    /\ previous_button_state' = NextPrevious(button_state, previous_button_state)
    /\ cycles' = cycles + 1
    /\ UNCHANGED <<pc, serial_ready, pin_mode>>

\* one execution of loop() with the analog reading and the button reading
loop(current_charging_rate, button_state) ==
    /\ pc = "loop"
    /\ battery_charge_percentage' =
           Charged(battery_charge_percentage, current_charging_rate)
    /\ serial_lines' =
           <<TelemetryLine(battery_charge_percentage', current_charging_rate)>>
    /\ light_on' = NextLight(light_on, button_state, previous_button_state)
    /\ pin_writes' = LightWrites(light_on, button_state, previous_button_state)
    /\ light_pin' = LevelAfter(light_pin, pin_writes')
    /\ previous_button_state' = NextPrevious(button_state, previous_button_state)
    /\ cycles' = cycles + 1
    /\ UNCHANGED <<pc, serial_ready, pin_mode>>

\* what one cycle read and what it left behind
Observation(current_charging_rate, button_state) ==
    [reading |-> current_charging_rate,
     button  |-> button_state,
     charge  |-> battery_charge_percentage',
     light   |-> light_on',
     previous |-> previous_button_state',
     writes  |-> pin_writes',
     lines   |-> serial_lines']

SensorValues == {0, AVERAGE_CHARGE_LEVEL, ADC_MAX}
ButtonValues == {PRESSED, NOT_PRESSED}

\* arbitrary inputs, every cycle recorded
LoopStep ==
    /\ cycles < MaxCycles
    /\ \E r \in SensorValues, b \in ButtonValues :
          /\ loop(r, b)
          /\ hist' = Append(hist, Observation(r, b))

\* the photoresistor reads AVERAGE_CHARGE_LEVEL on every cycle
LoopAverage ==
    /\ cycles < AvgCycles
    /\ \E b \in ButtonValues : loop(AVERAGE_CHARGE_LEVEL, b)
    /\ UNCHANGED hist

\* the photoresistor reads full scale on every cycle
LoopBright ==
    /\ cycles < BrightCycles
    /\ \E b \in ButtonValues : loop(ADC_MAX, b)
    /\ UNCHANGED hist

\* the photoresistor is swept through every ADC count, one per cycle
LoopRamp ==
    /\ cycles <= ADC_MAX
    /\ \E b \in ButtonValues : loop(cycles, b)
    /\ UNCHANGED hist

Next == SerialConnect \/ setup \/ LoopStep
NextAverage == SerialConnect \/ setup \/ LoopAverage
NextBright == SerialConnect \/ setup \/ LoopBright
NextRamp == SerialConnect \/ setup \/ LoopRamp

Spec == Init /\ [][Next]_vars
SpecAverage == Init /\ [][NextAverage]_vars
SpecBright == Init /\ [][NextBright]_vars
SpecRamp == Init /\ [][NextRamp]_vars

\* the processor keeps running: setup() returns once it may, and the core
\* calls loop() again after every return
FairSpec == Spec /\ WF_vars(setup) /\ WF_vars(LoopStep)

TypeOK ==
    /\ pc \in {"setup", "loop"}
    /\ serial_ready \in BOOLEAN
    /\ light_on \in BOOLEAN
    /\ previous_button_state \in {0, 1}
    /\ light_pin \in {LOW, HIGH}
    /\ cycles \in Nat
    /\ Len(serial_lines) <= 1
    /\ Len(pin_writes) <= 1

(***************************************************************************)
(* Views of the recorded history used by the properties.                   *)
(***************************************************************************)
Cycles == 1..Len(hist)
Readings == [k \in Cycles |-> hist[k].reading]
Buttons == [k \in Cycles |-> hist[k].button]

ChargeBefore(k) == IF k = 1 THEN IntToFloat(LOW_BATTERY_LIMIT) ELSE hist[k - 1].charge
ButtonBefore(k) == IF k = 1 THEN NOT_PRESSED ELSE hist[k - 1].button
LightBefore(k) == IF k = 1 THEN FALSE ELSE hist[k - 1].light

Toggled(k) == hist[k].light # LightBefore(k)
IsPressEdge(k) == hist[k].button = PRESSED /\ ButtonBefore(k) = NOT_PRESSED
IsReleaseEdge(k) == hist[k].button = NOT_PRESSED /\ ButtonBefore(k) = PRESSED

\* the coefficient as the specification spells it out
Coefficient ==
    FDiv(FDiv(FDiv(IntToFloat(HIGH_BATTERY_LIMIT - LOW_BATTERY_LIMIT),
                   SECONDS_TO_FULL), LOOPS_PER_SECOND), AVERAGE_CHARGE_LEVEL)

\* LOW_BATTERY_LIMIT + r1*c + ... + rn*c, summed in cycle order in float
RECURSIVE SumOfCharges(_)
SumOfCharges(rs) ==
    IF Len(rs) = 0 THEN IntToFloat(LOW_BATTERY_LIMIT)
    ELSE FAdd(SumOfCharges(SubSeq(rs, 1, Len(rs) - 1)),
              FMulInt(rs[Len(rs)], Coefficient))

\* number of NOT_PRESSED -> PRESSED transitions in a button sequence that
\* follows an initial NOT_PRESSED
RECURSIVE PressEdgesIn(_)
PressEdgesIn(bs) ==
    IF Len(bs) = 0 THEN 0
    ELSE LET n == Len(bs)
             before == IF n = 1 THEN NOT_PRESSED ELSE bs[n - 1]
         IN  PressEdgesIn(SubSeq(bs, 1, n - 1))
               + (IF bs[n] = PRESSED /\ before = NOT_PRESSED THEN 1 ELSE 0)

Odd(n) == n % 2 = 1

(***************************************************************************)
(* C1: with no button activity, the battery level after n cycles is        *)
(* LOW_BATTERY_LIMIT plus the sum of reading * coefficient over the cycles *)
(* (float arithmetic, in cycle order); a reading of 0 adds nothing and a   *)
(* reading of 1023 adds coefficient * 1023.                                *)
(***************************************************************************)
C1_AccumulatedCharge ==
    (\A k \in Cycles : hist[k].button = NOT_PRESSED) =>
        /\ battery_charge_percentage = SumOfCharges(Readings)
        /\ \A k \in Cycles :
              /\ hist[k].reading = 0 => hist[k].charge = ChargeBefore(k)
              /\ hist[k].reading = ADC_MAX =>
                    hist[k].charge =
                        FAdd(ChargeBefore(k), FMulInt(ADC_MAX, Coefficient))

C1_Witness ==
    /\ Len(hist) >= 3
    /\ \A k \in Cycles : hist[k].button = NOT_PRESSED
    /\ {hist[k].reading : k \in Cycles} = SensorValues

(***************************************************************************)
(* C2: the light is inverted in a cycle exactly when that cycle reads      *)
(* PRESSED and the cycle before read NOT_PRESSED; so the light is on       *)
(* exactly when the number of press edges is odd, and the readings         *)
(* NOT_PRESSED, PRESSED, PRESSED, NOT_PRESSED, PRESSED toggle it on cycles *)
(* 2 and 5 only.                                                           *)
(***************************************************************************)
C2_Scenario == <<NOT_PRESSED, PRESSED, PRESSED, NOT_PRESSED, PRESSED>>

C2_ToggleOnPressEdgeOnly ==
    /\ \A k \in Cycles : Toggled(k) <=> IsPressEdge(k)
    /\ light_on = Odd(Cardinality({k \in Cycles : IsPressEdge(k)}))
    /\ Buttons = C2_Scenario => {k \in Cycles : Toggled(k)} = {2, 5}

C2_Witness ==
    /\ Buttons = C2_Scenario
    /\ light_on = FALSE

(***************************************************************************)
(* C3 as stated: the first cycle, reading 530, adds PERCENTAGE_PER_LOOP    *)
(* and prints 0, 100, <the new percentage>, 52.                            *)
(***************************************************************************)
C3_FirstCycleAsStated ==
    (Len(hist) >= 1 /\ hist[1].reading = AVERAGE_CHARGE_LEVEL) =>
        /\ hist[1].charge =
              FAdd(IntToFloat(LOW_BATTERY_LIMIT), PERCENTAGE_PER_LOOP)
        /\ hist[1].lines = <<<<0, 100, PrintFloat(hist[1].charge), 52>>>>

(***************************************************************************)
(* C3 amended: the first cycle, reading 530, adds PERCENTAGE_PER_LOOP and  *)
(* prints 0, 100, 10.13, 51: the percentage after the increment with two   *)
(* decimals, and 530 rescaled with truncation, which is 51.                *)
(***************************************************************************)
C3_FirstCycle ==
    (Len(hist) >= 1 /\ hist[1].reading = AVERAGE_CHARGE_LEVEL) =>
        /\ hist[1].charge =
              FAdd(IntToFloat(LOW_BATTERY_LIMIT), PERCENTAGE_PER_LOOP)
        /\ hist[1].lines = <<<<0, 100, <<10, 1, 3>>, 51>>>>
        /\ PrintFloat(hist[1].charge) = <<10, 1, 3>>

C3_Witness ==
    /\ Len(hist) = 1
    /\ hist[1].reading = AVERAGE_CHARGE_LEVEL
    /\ serial_lines = hist[1].lines

(***************************************************************************)
(* C4: for every reading r in 0..1023 the fourth telemetry field is        *)
(* floor(r * 100 / 1023): it lies in 0..100, is 0 for r = 0 and 100 only   *)
(* for r = 1023; the first two fields are 0 and 100.  (In the sweep the    *)
(* reading of the latest cycle is cycles - 1.)                             *)
(***************************************************************************)
C4_RescaledField ==
    cycles >= 1 =>
        LET r == cycles - 1
            f == serial_lines[1][4]
        IN  /\ Len(serial_lines) = 1
            /\ serial_lines[1][1] = 0
            /\ serial_lines[1][2] = 100
            /\ f \in 0..100
            /\ f * ADC_MAX <= r * 100
            /\ r * 100 < (f + 1) * ADC_MAX
            /\ (f = 100) <=> (r = ADC_MAX)
            /\ r = 0 => f = 0

C4_Witness ==
    /\ cycles = ADC_MAX + 1
    /\ serial_lines[1][4] = 100

(***************************************************************************)
(* C5: the battery level always stays between LOW_BATTERY_LIMIT and        *)
(* HIGH_BATTERY_LIMIT.                                                     *)
(***************************************************************************)
C5_WithinLimits ==
    /\ FLeq(IntToFloat(LOW_BATTERY_LIMIT), battery_charge_percentage)
    /\ FLeq(battery_charge_percentage, IntToFloat(HIGH_BATTERY_LIMIT))

(***************************************************************************)
(* C6: reading AVERAGE_CHARGE_LEVEL on every cycle, the battery level      *)
(* equals HIGH_BATTERY_LIMIT after exactly SECONDS_TO_FULL *               *)
(* LOOPS_PER_SECOND cycles and is below it after fewer.                    *)
(***************************************************************************)
CyclesToFull == SECONDS_TO_FULL * LOOPS_PER_SECOND

C6_FullAsStated ==
    /\ cycles < CyclesToFull =>
          FLess(battery_charge_percentage, IntToFloat(HIGH_BATTERY_LIMIT))
    /\ cycles = CyclesToFull =>
          battery_charge_percentage = IntToFloat(HIGH_BATTERY_LIMIT)

(***************************************************************************)
(* C7: setup() does not return while the serial stream is not ready, so    *)
(* nothing of loop() happens before the stream is ready (no line, no       *)
(* change of the globals, no pin write), and nothing ever if it never is;  *)
(* once setup() has returned the program stays in the loop and keeps       *)
(* running cycles (up to the bound of the model).                          *)
(***************************************************************************)
Untouched ==
    /\ cycles = 0
    /\ serial_lines = <<>>
    /\ pin_writes = <<>>
    /\ light_pin = LOW
    /\ battery_charge_percentage = IntToFloat(LOW_BATTERY_LIMIT)
    /\ light_on = FALSE
    /\ previous_button_state = NOT_PRESSED
    /\ pin_mode["LIGHT"] = "UNSET"

C7_StartupBarrier ==
    /\ []((~serial_ready \/ pc = "setup") => (pc = "setup" /\ Untouched))
    /\ ([](~serial_ready) => [](cycles = 0))
    /\ [][pc = "loop" => pc' = "loop"]_vars
    /\ (serial_ready ~> cycles = MaxCycles)

C7_Witness ==
    /\ serial_ready
    /\ pc = "loop"
    /\ cycles = MaxCycles

(***************************************************************************)
(* C8: after every cycle previous_button_state is the button value read in *)
(* that cycle, whatever the edge; so a press edge is detected in a cycle   *)
(* (the light pin is written) exactly when the cycle before read           *)
(* NOT_PRESSED and this one reads PRESSED.                                 *)
(***************************************************************************)
C8_BaselineIsLastReading ==
    /\ \A k \in Cycles : hist[k].previous = hist[k].button
    /\ cycles > 0 => previous_button_state = hist[Len(hist)].button
    /\ \A k \in Cycles :
          (hist[k].writes # <<>>) <=>
              (ButtonBefore(k) = NOT_PRESSED /\ hist[k].button = PRESSED)

C8_Witness ==
    /\ \E i, j, k \in Cycles :
          /\ IsPressEdge(i)
          /\ IsReleaseEdge(j)
          /\ hist[k].button = ButtonBefore(k)
    /\ previous_button_state = PRESSED

(***************************************************************************)
(* C9: the LIGHT pin is written only in a cycle with a press edge, once,   *)
(* with the new value of light_on; every cycle prints exactly one line;    *)
(* the level on the LIGHT pin is HIGH exactly when light_on is true.       *)
(***************************************************************************)
LevelOf(on) == IF on THEN HIGH ELSE LOW

C9_PinFollowsLight ==
    /\ \A k \in Cycles :
          /\ hist[k].writes =
                (IF IsPressEdge(k) THEN <<LevelOf(hist[k].light)>> ELSE <<>>)
          /\ Len(hist[k].lines) = 1
    /\ (light_pin = HIGH) <=> light_on

C9_Witness ==
    /\ \E i, j \in Cycles :
          /\ i < j
          /\ hist[i].writes = <<HIGH>>
          /\ hist[j].writes = <<LOW>>
    /\ light_on
    /\ light_pin = HIGH

(***************************************************************************)
(* C10: charging and the light are independent.  The battery level and the *)
(* telemetry line after every cycle are determined by the sensor readings  *)
(* alone, and light_on, previous_button_state and the pin writes by the    *)
(* button readings alone; so two runs that agree on one input stream agree *)
(* on everything that stream determines.                                   *)
(***************************************************************************)
WritesFor(bs) ==
    LET n == Len(bs)
        before == IF n = 1 THEN NOT_PRESSED ELSE bs[n - 1]
    IN  IF bs[n] = PRESSED /\ before = NOT_PRESSED
        THEN <<LevelOf(Odd(PressEdgesIn(bs)))>>
        ELSE <<>>

C10_Independence ==
    cycles > 0 =>
        LET k == Len(hist)
        IN  /\ hist[k].charge = battery_charge_percentage
            /\ battery_charge_percentage = SumOfCharges(Readings)
            /\ hist[k].lines =
                  <<<<0, 100, PrintFloat(SumOfCharges(Readings)),
                      (100 * Readings[k]) \div ADC_MAX>>>>
            /\ serial_lines = hist[k].lines
            /\ light_on = Odd(PressEdgesIn(Buttons))
            /\ previous_button_state = Buttons[k]
            /\ pin_writes = WritesFor(Buttons)
            /\ hist[k].light = light_on
            /\ hist[k].writes = pin_writes

C10_Witness ==
    /\ \E k \in Cycles : hist[k].reading = ADC_MAX /\ hist[k].button = PRESSED
    /\ \E k \in Cycles : hist[k].reading = 0 /\ hist[k].button = NOT_PRESSED
    /\ light_on
    /\ FLess(IntToFloat(LOW_BATTERY_LIMIT), battery_charge_percentage)
====
